---------------------------- MODULE Spec2Model ----------------------------
(***************************************************************************)
(* Model of the memory-context lifecycle engine:                           *)
(*   src/unnamed/part_000   ContextManager (registry, reaper, shutdown)    *)
(*   src/contexts/memctx.go MemoryContext (pools, children, Close)         *)
(*                                                                         *)
(* Granularity.  Caller goroutines and the reaper goroutine are processes  *)
(* with a program counter.  A step is a maximal piece of code whose shared *)
(* accesses are all protected by one lock that every other accessor also   *)
(* takes; accesses that are NOT so protected are steps of their own:       *)
(*   - GetOrCreateContext reads ctx.closed and reads/writes                *)
(*     ctx.referenceCount holding only cm.mu, while ReturnContext and      *)
(*     MemoryContext.Close access them holding only ctx.mu;                *)
(*   - cleanupIdleContexts reads ctx.active holding only cm.mu;            *)
(*   - ContextManager.Close ranges over cm.ctxCache holding no lock.       *)
(* A goroutine blocked on the first lock of a call is a goroutine that has *)
(* not called yet; a goroutine blocked on a later lock keeps its pc and    *)
(* the locks it holds.  sync.RWMutex read sections never span a step, so   *)
(* a lock is either free or held by one writer.                            *)
(*                                                                         *)
(* MemoryContext.Close is one step, taken when every mutex it will lock is *)
(* free: it runs under mc.mu and the mutexes of the descendants it visits, *)
(* and every other access to those fields takes the same mutexes, but for  *)
(* the unlocked accesses of GetOrCreateContext and the reaper listed       *)
(* above, which are steps of their own.                                    *)
(*                                                                         *)
(* Left out: the Go runtime's fatal error on a map written while           *)
(* ContextManager.Close ranges over it; the text fmt.Errorf wraps around   *)
(* an error (the error of a failed pool or child Close is passed up under  *)
(* one name); what pool.Pool does with the objects it hands out.           *)
(*                                                                         *)
(* Specifications: Spec, the manager with NumThreads callers and the       *)
(* reaper, over contexts that have no pools and no children; SpecLive,     *)
(* Spec under fair scheduling; SpecCtx, one caller with every call on a    *)
(* tree of contexts and their pools; SpecSeq, one caller handing a context *)
(* out and back, with the calls counted; SpecRace, the same with           *)
(* NumThreads callers; SpecIdle, one caller and the reaper, with calls     *)
(* that are short against the clock.                                       *)
(***************************************************************************)
EXTENDS Integers, Sequences, FiniteSets, TLC

\* ------------------------------------------------------------------ bounds
NumThreads == 2      \* caller goroutines
MaxCtx     == 3      \* MemoryContext objects ever constructed
MaxTop     == 2      \* of which GetOrCreateContext constructs at most this many
MaxRefs    == 2      \* the positive MaxReferences ceiling tried
MaxTime    == 2      \* clock horizon
IdleTime   == 1      \* the configured MaxIdleTime, in clock ticks
MaxDebt    == 1      \* Returns counted below zero by the ghost balance net[c]

\* --------------------------------------------------------------- constants
NoCtx    == 0        \* nil *MemoryContext
Free     == 0        \* an unlocked mutex
Reaper   == 9        \* id of the cleanup goroutine as a lock holder
Nil      == "nil"    \* nil channel / nil error
NoPanic  == "none"   \* the process has not panicked

Threads  == 1..NumThreads
Ctx      == 1..MaxCtx
Keys     == {"A"}                  \* non-empty MemoryContextType values
PoolTypes == {"T"}                 \* reflect.Type values pools are made for
ObjTypes == {"T", "U"}             \* runtime types of released objects

VARIABLES
  \* ContextManager
  ctxCache,        \* NilMap, or [Keys -> Ctx \cup {NoCtx}]
  config,          \* NilConfig, or [MaxReferences, MaxIdleTime, CleanupInterval]
  stopChan,        \* "open" | "closed" | Nil
  cmClosed,        \* cm.closed
  cmMu,            \* cm.mu: Free or the holder
  \* MemoryContext, per object
  nextCtx,         \* objects 1..nextCtx-1 have been constructed
  active, closed, referenceCount, contextType, parent, children,
  pools,           \* pools[c]: the PoolTypes with an entry in mc.pools
  lastUsed,
  mu,              \* mc.mu: Free or the holder
  \* pool.Pool objects (external), one slot per context and type
  poolState,       \* "none" | "open" | "closed"
  poolFaulty,      \* whether this pool's Close returns an error
  \* goroutines
  pc, argKey, argCtx, loc, visited,
  rpc, rKey, rCtx, rVisited,
  rSel,            \* what the reaper's select waits on: "chan" or Nil
  ret,             \* what the latest step returned to its caller, or NoRet
  \* environment
  now,
  panicked,        \* NoPanic, or the message of the panic that ended the process
  \* ghosts
  createdFor,      \* key a top-level context was created under ("" else)
  counting,        \* whether this specification keeps the balance net
  net,             \* successful creates+shares minus successful Returns
  floored          \* successful Returns that found the count at zero

mvars   == <<ctxCache, config, stopChan, cmClosed, cmMu>>
cvars   == <<nextCtx, active, closed, referenceCount, contextType, parent,
             children, pools, lastUsed, mu>>
pvars   == <<poolState, poolFaulty>>
tvars   == <<pc, argKey, argCtx, loc, visited>>
rvars   == <<rpc, rKey, rCtx, rVisited, rSel>>
evars   == <<now, panicked>>
gvars   == <<createdFor, counting, net, floored>>
vars    == <<mvars, cvars, pvars, tvars, rvars, evars, gvars, ret>>

Allocated == 1..(nextCtx - 1)

\* The contexts a caller can pass to a call: those constructed, but for the
\* ones still private to the GetOrCreateContext or CreateChild call that is
\* constructing them.
Held ==
  Allocated \ ({argCtx[t] : t \in {u \in Threads : pc[u] = "goc_create"}}
               \cup {loc[t] : t \in {u \in Threads : pc[u] = "cch_register"}})

\* A return event: goroutine t's call of op, on key or on context ctx (for
\* GetOrCreateContext ctx is the context handed out), returned val and the
\* error err.  Of the calls that return only an error, MemoryContext.Close
\* records in val whether the context was closed already when it was
\* called, and CloseContext whether it is this call that closed it.
NoRet == [t |-> 0, op |-> "none", key |-> "", ctx |-> NoCtx, val |-> FALSE,
          err |-> Nil]

Result(op, key, c, val, err) ==
  [t |-> 0, op |-> op, key |-> key, ctx |-> c, val |-> val, err |-> err]

\* cm.ctxCache = nil and cm.config = nil, as values of the variables' types.
NilMap    == [k \in Keys |-> -1]
NilConfig == [MaxReferences |-> -1, MaxIdleTime |-> -1, CleanupInterval |-> -1]

\* cm.ctxCache[key] with the comma-ok idiom: a nil map has no entries.
Lookup(key) == IF ctxCache = NilMap THEN NoCtx ELSE ctxCache[key]

\* ------------------------------------------------------------ construction
\* NewContextManager(config) for a config of configs, a set of pairs
\* <<MaxReferences, CleanupInterval>>: the registry is empty, and the
\* cleanup goroutine is started iff CleanupInterval > 0.
NewContextManager(configs, count) ==
  /\ ctxCache = [k \in Keys |-> NoCtx]
  /\ \E cf \in configs :
       /\ config = [MaxReferences |-> cf[1], MaxIdleTime |-> IdleTime,
                    CleanupInterval |-> cf[2]]
       /\ rpc = IF cf[2] > 0 THEN "wait" ELSE "off"
  /\ stopChan = "open"
  /\ cmClosed = FALSE
  /\ cmMu = Free
  /\ nextCtx = 1
  /\ active = [c \in Ctx |-> FALSE]
  /\ closed = [c \in Ctx |-> FALSE]
  /\ referenceCount = [c \in Ctx |-> 0]
  /\ contextType = [c \in Ctx |-> ""]
  /\ parent = [c \in Ctx |-> NoCtx]
  /\ children = [c \in Ctx |-> <<>>]
  /\ pools = [c \in Ctx |-> {}]
  /\ lastUsed = [c \in Ctx |-> 0]
  /\ mu = [c \in Ctx |-> Free]
  /\ poolState = [c \in Ctx |-> [ot \in PoolTypes |-> "none"]]
  /\ poolFaulty = [c \in Ctx |-> [ot \in PoolTypes |-> FALSE]]
  /\ pc = [t \in Threads |-> "idle"]
  /\ argKey = [t \in Threads |-> ""]
  /\ argCtx = [t \in Threads |-> NoCtx]
  /\ loc = [t \in Threads |-> 0]
  /\ visited = [t \in Threads |-> {}]
  /\ ret = NoRet
  /\ rKey = ""
  /\ rCtx = NoCtx
  /\ rVisited = {}
  /\ rSel = "chan"
  /\ now = 0
  /\ panicked = NoPanic
  /\ createdFor = [c \in Ctx |-> ""]
  /\ counting = count
  /\ net = [c \in Ctx |-> 0]
  /\ floored = [c \in Ctx |-> 0]

\* The configurations tried: no ceiling or ceiling MaxRefs, reaper on or off.
Init == NewContextManager({<<0, 1>>, <<MaxRefs, 1>>, <<MaxRefs, 0>>}, FALSE)


\* ------------------------------------------------------------------- locks
\* Variant: GetOrCreateContext enters without waiting for cm.mu.
GetOrCreateAcquireUnlocked(t) == cmMu' = t

\* cm.mu.Lock() as GetOrCreateContext takes it (part_000:119).
GetOrCreateAcquire(t) == cmMu = Free /\ cmMu' = t

\* ------------------------------------------------------ NewMemoryContext
\* The fields NewMemoryContext sets on the object with id c; every other
\* field keeps Go's zero value (active, closed false, referenceCount 0,
\* children nil), which is what Init gave the unconstructed object.
NewMemoryContext(c, cfgParent, cfgType) ==
  /\ c = nextCtx
  /\ nextCtx <= MaxCtx
  /\ nextCtx' = nextCtx + 1
  /\ parent' = [parent EXCEPT ![c] = cfgParent]
  /\ contextType' = [contextType EXCEPT ![c] = cfgType]
  /\ lastUsed' = [lastUsed EXCEPT ![c] = now]

\* A panic that no one recovers ends the process: every goroutine stops.
Panic(msg) ==
  /\ panicked' = msg
  /\ pc' = [t \in Threads |-> "dead"]
  /\ rpc' = "dead"

\* A call returns r to goroutine t: its locals die with the frame.
Return(t, r) ==
  /\ pc' = [pc EXCEPT ![t] = "idle"]
  /\ ret' = [r EXCEPT !.t = t]
  /\ argKey' = [argKey EXCEPT ![t] = ""]
  /\ argCtx' = [argCtx EXCEPT ![t] = NoCtx]
  /\ loc' = [loc EXCEPT ![t] = 0]
  /\ visited' = [visited EXCEPT ![t] = {}]

\* ------------------------------------------------- GetOrCreateContext
\* ctxType == "": ErrInvalidContextType before any lock is taken.
GetOrCreateInvalid(t) ==
  /\ pc[t] = "idle"
  /\ Return(t, Result("GetOrCreateContext", "", NoCtx, FALSE,
                      "ErrInvalidContextType"))
  /\ UNCHANGED <<mvars, cvars, pvars, rvars, evars, gvars>>

\* cm.mu.Lock(); ctx, ok := cm.ctxCache[ctxType]; on !ok the new object is
\* constructed (it is private to the caller until it is stored).
GetOrCreateLookup(t, key, cfgParent, cfgType) ==
  /\ pc[t] = "idle"
  /\ GetOrCreateAcquire(t)
  /\ argKey' = [argKey EXCEPT ![t] = key]
  /\ IF Lookup(key) = NoCtx
       THEN /\ nextCtx <= MaxTop
            /\ NewMemoryContext(nextCtx, cfgParent, cfgType)
            /\ argCtx' = [argCtx EXCEPT ![t] = nextCtx]
            /\ pc' = [pc EXCEPT ![t] = "goc_create"]
       ELSE /\ cfgType = "A"                        \* config is not used
            /\ config.MaxReferences = 0 =>
                 referenceCount[Lookup(key)] <= MaxRefs
            /\ net[Lookup(key)] <= MaxRefs          \* the ghost is capped
            /\ argCtx' = [argCtx EXCEPT ![t] = Lookup(key)]
            /\ pc' = [pc EXCEPT ![t] = "goc_closed"]
            /\ UNCHANGED <<nextCtx, parent, contextType, lastUsed>>
  /\ ret' = NoRet
  /\ UNCHANGED <<ctxCache, config, stopChan, cmClosed, active, closed, referenceCount, children, pools, mu, pvars, loc, visited, rvars, evars, gvars>>

\* ctx.active = true; ctx.referenceCount = 1; cm.ctxCache[ctxType] = ctx;
\* return ctx, false, nil.  An assignment to an entry of a nil map panics.
GetOrCreateCreate(t) ==
  /\ pc[t] = "goc_create"
  /\ LET c == argCtx[t] IN
     IF ctxCache = NilMap
       THEN /\ Panic("assignment to entry in nil map")
            /\ ret' = NoRet
            /\ UNCHANGED <<mvars, cvars, argKey, argCtx, loc, visited, rKey,
                           rCtx, rVisited, rSel, now, gvars>>
       ELSE /\ active' = [active EXCEPT ![c] = TRUE]
            /\ referenceCount' = [referenceCount EXCEPT ![c] = 1]
            /\ ctxCache' = [ctxCache EXCEPT ![argKey[t]] = c]
            /\ cmMu' = Free
            /\ Return(t, Result("GetOrCreateContext", argKey[t], c, FALSE,
                                Nil))
            /\ createdFor' = [createdFor EXCEPT ![c] = argKey[t]]
            /\ net' = IF counting THEN [net EXCEPT ![c] = 1] ELSE net
            /\ UNCHANGED <<config, stopChan, cmClosed, nextCtx, closed,
                           contextType, parent, children, pools, lastUsed,
                           mu, rvars, evars, counting, floored>>
  /\ UNCHANGED pvars

\* if ctx.closed { return nil, false, ErrContextClosed }
GetOrCreateClosed(t) ==
  /\ pc[t] = "goc_closed"
  /\ IF closed[argCtx[t]]
       THEN /\ cmMu' = Free
            /\ Return(t, Result("GetOrCreateContext", argKey[t], NoCtx,
                                FALSE, "ErrContextClosed"))
       ELSE /\ pc' = [pc EXCEPT ![t] = "goc_ceiling"]
            /\ ret' = NoRet
            /\ UNCHANGED <<cmMu, argKey, argCtx, loc, visited>>
  /\ UNCHANGED <<ctxCache, config, stopChan, cmClosed, cvars, pvars,
                 rvars, evars, gvars>>

\* Variant: the ceiling test written with > for >=.
MaxReferencesReachedLate(n) ==
  config.MaxReferences > 0 /\ n > config.MaxReferences

\* maxRefEnabled && ctx.referenceCount >= cm.config.MaxReferences
MaxReferencesReached(n) ==
  config.MaxReferences > 0 /\ n >= config.MaxReferences

\* The ceiling test, then the load half of ctx.referenceCount++.  Only a
\* ReturnContext or a MemoryContext.Close can write the count between the
\* two reads (another GetOrCreateContext is excluded by cm.mu), and both
\* only lower it, so reading it once loses no outcome.
GetOrCreateCeiling(t) ==
  /\ pc[t] = "goc_ceiling"
  /\ IF MaxReferencesReached(referenceCount[argCtx[t]])
       THEN /\ cmMu' = Free
            /\ Return(t, Result("GetOrCreateContext", argKey[t], NoCtx,
                                FALSE, "ErrMaxReferencesReached"))
       ELSE /\ loc' = [loc EXCEPT ![t] = referenceCount[argCtx[t]]]
            /\ pc' = [pc EXCEPT ![t] = "goc_store"]
            /\ ret' = NoRet
            /\ UNCHANGED <<cmMu, argKey, argCtx, visited>>
  /\ UNCHANGED <<ctxCache, config, stopChan, cmClosed, cvars, pvars,
                 rvars, evars, gvars>>

\* What a sharing GetOrCreateContext does to the context's fields: the
\* store half of ctx.referenceCount++ and nothing else.
ShareFields(c, n) ==
  /\ referenceCount' = [referenceCount EXCEPT ![c] = n + 1]
  /\ UNCHANGED active

\* ctx.referenceCount++ (store); return ctx, true, nil.
GetOrCreateStore(t) ==
  /\ pc[t] = "goc_store"
  /\ ShareFields(argCtx[t], loc[t])
  /\ cmMu' = Free
  /\ Return(t, Result("GetOrCreateContext", argKey[t], argCtx[t], TRUE, Nil))
  /\ net' = IF counting THEN [net EXCEPT ![argCtx[t]] = @ + 1] ELSE net
  /\ UNCHANGED <<ctxCache, config, stopChan, cmClosed, nextCtx, closed,
                 contextType, parent, children, pools, lastUsed, mu, pvars,
                 rvars, evars, createdFor, counting, floored>>

\* ------------------------------------------------------- ReturnContext
ReturnNil(t) ==
  /\ pc[t] = "idle"
  /\ Return(t, Result("ReturnContext", "", NoCtx, FALSE, "ErrNilContext"))
  /\ UNCHANGED <<mvars, cvars, pvars, rvars, evars, gvars>>

\* ctx.mu.Lock(); if ctx.closed { return ErrContextClosed }; then the test
\* and load of "if ctx.referenceCount > 0 { ctx.referenceCount-- }".
ReturnLock(t, c) ==
  /\ pc[t] = "idle"
  /\ c \in Held
  /\ mu[c] = Free
  /\ IF closed[c]
       THEN /\ Return(t, Result("ReturnContext", "", c, FALSE,
                                "ErrContextClosed"))
            /\ UNCHANGED mu
       ELSE /\ net[c] > -MaxDebt
            /\ floored[c] <= MaxDebt
            /\ mu' = [mu EXCEPT ![c] = t]
            /\ argCtx' = [argCtx EXCEPT ![t] = c]
            /\ loc' = [loc EXCEPT ![t] = referenceCount[c]]
            /\ pc' = [pc EXCEPT ![t] = "ret_store"]
            /\ ret' = NoRet
            /\ UNCHANGED <<argKey, visited>>
  /\ UNCHANGED <<mvars, nextCtx, active, closed, referenceCount,
                 contextType, parent, children, pools, lastUsed, pvars,
                 rvars, evars, gvars>>

\* Variant: ReturnContext stores the count it loaded.
DecrementLost(n) == n

\* The count ReturnContext stores, having loaded n > 0.
Decrement(n) == n - 1

\* ctx.referenceCount-- (store), skipped when the loaded count was 0.
ReturnStore(t) ==
  /\ pc[t] = "ret_store"
  /\ referenceCount' = [referenceCount EXCEPT ![argCtx[t]] =
       IF loc[t] > 0 THEN Decrement(loc[t]) ELSE @]
  /\ pc' = [pc EXCEPT ![t] = "ret_active"]
  /\ ret' = NoRet
  /\ UNCHANGED <<mvars, nextCtx, active, closed, contextType, parent, children, pools, lastUsed, mu, pvars, argKey, argCtx, loc, visited, rvars, evars, gvars>>

\* ctx.active = ctx.referenceCount > 0; ctx.mu.Unlock(); return nil.
ReturnActive(t) ==
  /\ pc[t] = "ret_active"
  /\ active' = [active EXCEPT ![argCtx[t]] = referenceCount[argCtx[t]] > 0]
  /\ mu' = [mu EXCEPT ![argCtx[t]] = Free]
  /\ Return(t, Result("ReturnContext", "", argCtx[t], TRUE, Nil))
  /\ net' = IF counting THEN [net EXCEPT ![argCtx[t]] = @ - 1] ELSE net
  /\ floored' = IF counting /\ loc[t] = 0
                  THEN [floored EXCEPT ![argCtx[t]] = @ + 1] ELSE floored
  /\ UNCHANGED <<mvars, nextCtx, closed, referenceCount, contextType,
                 parent, children, pools, lastUsed, pvars, rvars, evars,
                 createdFor, counting>>

\* ------------------------------------------------------------------ clock
\* time.Now() advances.
Tick ==
  /\ ret' = NoRet
  /\ panicked = NoPanic
  /\ now < MaxTime
  /\ now' = now + 1
  /\ UNCHANGED <<mvars, cvars, pvars, tvars, rvars, panicked, gvars>>

\* ------------------------------------------------- MemoryContext.Close
\* The context fields and pools MemoryContext.Close reads and writes.
CtxState ==
  [closed |-> closed, active |-> active, referenceCount |-> referenceCount,
   pools |-> pools, children |-> children, poolState |-> poolState]

\* "for _, pool := range mc.pools { pool.Close() }": error on the first pool
\* whose Close fails.  PoolTypes has one element, so the range has one
\* order and no pool precedes a failing one.
ClosePools(c, st) ==
  IF \E ot \in st.pools[c] : poolFaulty[c][ot]
    THEN [st |-> st, err |-> "ErrPoolClose"]
    ELSE [st |-> [st EXCEPT !.poolState[c] =
                    [ot \in PoolTypes |->
                       IF ot \in st.pools[c] THEN "closed" ELSE @[ot]]],
          err |-> Nil]

\* The assignments that end a successful Close (memctx.go:165-169).
MarkClosed(c, st) ==
  [st EXCEPT !.pools[c] = {}, !.children[c] = <<>>, !.closed[c] = TRUE,
             !.active[c] = FALSE, !.referenceCount[c] = 0]

RECURSIVE Close(_, _)
RECURSIVE CloseChildren(_, _, _, _)

\* "for _, child := range mc.children { child.Close() }" from index i on,
\* stopping at the first error; locks collects every mutex taken.
CloseChildren(kids, i, st, locks) ==
  IF i > Len(kids)
    THEN [st |-> st, err |-> Nil, locks |-> locks]
    ELSE LET r == Close(kids[i], st) IN
         IF r.err # Nil
           THEN [st |-> r.st, err |-> "ErrChildClose",
                 locks |-> locks \cup r.locks]
           ELSE CloseChildren(kids, i + 1, r.st, locks \cup r.locks)

\* Variant: Close without the test for a context closed already.
AlreadyClosedSkipped(c, st) == FALSE

\* if mc.closed { return nil }
AlreadyClosed(c, st) == st.closed[c]

\* mc.Close() run to its return on the state st: the state it leaves, the
\* error it returns and the mutexes it locked on the way.
Close(c, st) ==
  IF AlreadyClosed(c, st)
    THEN [st |-> st, err |-> Nil, locks |-> {c}]
    ELSE LET p == ClosePools(c, st) IN
         IF p.err # Nil
           THEN [st |-> p.st, err |-> p.err, locks |-> {c}]
           ELSE LET k == CloseChildren(st.children[c], 1, p.st, {c}) IN
                IF k.err # Nil
                  THEN k
                  ELSE [st |-> MarkClosed(c, k.st), err |-> Nil,
                        locks |-> k.locks]

\* The call takes effect when the last mutex it needs is free: r is
\* Close(c, CtxState).
ApplyClose(r) ==
  /\ \A x \in r.locks : mu[x] = Free
  /\ closed' = r.st.closed
  /\ active' = r.st.active
  /\ referenceCount' = r.st.referenceCount
  /\ pools' = r.st.pools
  /\ children' = r.st.children
  /\ poolState' = r.st.poolState

\* A caller closes a context it holds directly.
MemoryContextClose(t, c) ==
  /\ pc[t] = "idle"
  /\ c \in Held
  /\ LET r == Close(c, CtxState) IN
       /\ ApplyClose(r)
       /\ Return(t, Result("Close", "", c, closed[c], r.err))
  /\ UNCHANGED <<mvars, nextCtx, contextType, parent, lastUsed, mu,
                 poolFaulty, rvars, evars, gvars>>

\* ------------------------------------------- CreateChild, RegisterChild
\* mc.mu.Lock(); if mc.closed { return ErrContextClosed };
\* memCtx := mc.allocate(), with the lock still held for RegisterChild.
CreateChild(t, c) ==
  /\ pc[t] = "idle"
  /\ c \in Held
  /\ mu[c] = Free
  /\ IF closed[c]
       THEN /\ Return(t, Result("CreateChild", "", c, FALSE,
                                "ErrContextClosed"))
            /\ UNCHANGED <<nextCtx, parent, contextType, lastUsed, mu>>
       ELSE /\ NewMemoryContext(nextCtx, c, contextType[c])
            /\ mu' = [mu EXCEPT ![c] = t]
            /\ argCtx' = [argCtx EXCEPT ![t] = c]
            /\ loc' = [loc EXCEPT ![t] = nextCtx]
            /\ pc' = [pc EXCEPT ![t] = "cch_register"]
            /\ ret' = NoRet
            /\ UNCHANGED <<argKey, visited>>
  /\ UNCHANGED <<mvars, active, closed, referenceCount, children, pools,
                 pvars, rvars, evars, gvars>>

\* mc.mu.Lock(); mc.children = append(mc.children, child); mc.mu.Unlock().
\* Called by a user with a context it has just built, or by CreateChild,
\* whose goroutine already holds mc.mu: sync.RWMutex is not reentrant, so
\* that second Lock never succeeds.
RegisterChild(t, p, cfgParent, cfgType) ==
  /\ pc[t] \in {"idle", "cch_register"}
  /\ p \in Held
  /\ mu[p] = Free
  /\ IF pc[t] = "idle"
       THEN /\ NewMemoryContext(nextCtx, cfgParent, cfgType)
            /\ children' = [children EXCEPT ![p] = Append(@, nextCtx)]
            /\ Return(t, Result("RegisterChild", "", p, TRUE, Nil))
            /\ UNCHANGED mu
       ELSE /\ p = argCtx[t]                  \* the child is loc[t]
            /\ children' = [children EXCEPT ![p] = Append(@, loc[t])]
            /\ mu' = [mu EXCEPT ![p] = Free]
            /\ Return(t, Result("CreateChild", "", p, TRUE, Nil))
            /\ UNCHANGED <<nextCtx, parent, contextType, lastUsed>>
  /\ UNCHANGED <<mvars, active, closed, referenceCount, pools, pvars,
                 rvars, evars, gvars>>

\* ---------------------------------- CreatePool, Acquire, Release, GetPool
\* Variant: CreatePool without the closed test.
CreatePoolRefusedSkipped(c) == FALSE

\* if mc.closed { return ErrContextClosed }  (memctx.go:81-83)
CreatePoolRefused(c) == closed[c]

\* newPoolErr: pool.NewPool returns an error; faulty: the pool it returns
\* is one whose Close will fail.
CreatePool(t, c, ot, newPoolErr, faulty) ==
  /\ pc[t] = "idle"
  /\ c \in Held
  /\ mu[c] = Free
  /\ IF CreatePoolRefused(c)
       THEN /\ newPoolErr = FALSE /\ faulty = FALSE
            /\ Return(t, Result("CreatePool", "", c, FALSE,
                                "ErrContextClosed"))
            /\ UNCHANGED <<pools, pvars>>
       ELSE IF newPoolErr
         THEN /\ faulty = FALSE
              /\ Return(t, Result("CreatePool", "", c, FALSE, "ErrNewPool"))
              /\ UNCHANGED <<pools, pvars>>
         ELSE /\ pools' = [pools EXCEPT ![c] = @ \cup {ot}]
              /\ poolState' = [poolState EXCEPT ![c][ot] = "open"]
              /\ poolFaulty' = [poolFaulty EXCEPT ![c][ot] = faulty]
              /\ Return(t, Result("CreatePool", "", c, TRUE, Nil))
  /\ UNCHANGED <<mvars, nextCtx, active, closed, referenceCount,
                 contextType, parent, children, lastUsed, mu, rvars, evars,
                 gvars>>

\* What Acquire returns: an object from poolObj.Get(), or nil.
AcquireResult(c, ot) == ~closed[c] /\ ot \in pools[c]

Acquire(t, c, ot) ==
  /\ pc[t] = "idle"
  /\ c \in Held
  /\ mu[c] = Free
  /\ Return(t, Result("Acquire", "", c, AcquireResult(c, ot), Nil))
  /\ UNCHANGED <<mvars, cvars, pvars, rvars, evars, gvars>>

\* What Release returns; objType is reflect.TypeOf(obj).
ReleaseResult(c, ot, objType) ==
  ~closed[c] /\ ot \in pools[c] /\ objType = ot

Release(t, c, ot, objType) ==
  /\ pc[t] = "idle"
  /\ c \in Held
  /\ mu[c] = Free
  /\ Return(t, Result("Release", "", c, ReleaseResult(c, ot, objType), Nil))
  /\ UNCHANGED <<mvars, cvars, pvars, rvars, evars, gvars>>

\* GetPool has no closed test: it finds what mc.pools holds.
GetPoolResult(c, ot) == ot \in pools[c]

GetPool(t, c, ot) ==
  /\ pc[t] = "idle"
  /\ c \in Held
  /\ mu[c] = Free
  /\ Return(t, Result("GetPool", "", c, GetPoolResult(c, ot), Nil))
  /\ UNCHANGED <<mvars, cvars, pvars, rvars, evars, gvars>>

\* ----------------------------------------------------- ValidateContext
ValidateResult(c) == c # NoCtx /\ ~closed[c] /\ active[c]

ValidateContext(t, c) ==
  /\ pc[t] = "idle"
  /\ c \in Held \cup {NoCtx}
  /\ c # NoCtx => mu[c] = Free
  /\ Return(t, Result("ValidateContext", "", c, ValidateResult(c), Nil))
  /\ UNCHANGED <<mvars, cvars, pvars, rvars, evars, gvars>>

\* -------------------------------------------------------- CloseContext
\* The keys "range cm.ctxCache" can still produce, having produced seen.
RangeKeys(seen) == {k \in Keys : Lookup(k) # NoCtx} \ seen

\* CloseContext(ctxType, false), called by a user (pc idle) or by
\* ContextManager.Close for the key its range produced (pc sh_lookup):
\* cm.mu.Lock(); ctx, ok := cm.ctxCache[ctxType]; !ok: ErrContextNotFound.
CloseContextLookup(t, key) ==
  /\ pc[t] \in {"idle", "sh_lookup"}
  /\ pc[t] = "sh_lookup" => key = argKey[t]
  /\ cmMu = Free
  /\ IF Lookup(key) = NoCtx
       THEN /\ Return(t, Result(IF pc[t] = "idle" THEN "CloseContext"
                                ELSE "Shutdown",
                                key, NoCtx, FALSE, "ErrContextNotFound"))
            /\ UNCHANGED cmMu
       ELSE /\ cmMu' = t
            /\ argKey' = [argKey EXCEPT ![t] = key]
            /\ argCtx' = [argCtx EXCEPT ![t] = Lookup(key)]
            /\ pc' = [pc EXCEPT ![t] =
                 IF pc[t] = "idle" THEN "cc_rlock" ELSE "sh_rlock"]
            /\ ret' = NoRet
            /\ UNCHANGED <<loc, visited>>
  /\ UNCHANGED <<ctxCache, config, stopChan, cmClosed, cvars, pvars,
                 rvars, evars, gvars>>

\* Variant: CloseContext without the in-use test.
ContextInUseSkipped(c) == FALSE

\* The in-use test of CloseContext, under ctx.mu.RLock().
ContextInUse(c) == referenceCount[c] > 0

\* ctx.mu.RLock(); if ctx.referenceCount > 0 { return ErrContextInUse }
CloseContextRLock(t) ==
  /\ pc[t] \in {"cc_rlock", "sh_rlock"}
  /\ mu[argCtx[t]] = Free
  /\ IF ContextInUse(argCtx[t])
       THEN /\ cmMu' = Free
            /\ Return(t, Result(IF pc[t] = "cc_rlock" THEN "CloseContext"
                                ELSE "Shutdown",
                                argKey[t], argCtx[t], FALSE,
                                "ErrContextInUse"))
       ELSE /\ pc' = [pc EXCEPT ![t] =
                 IF pc[t] = "cc_rlock" THEN "cc_close" ELSE "sh_close"]
            /\ ret' = NoRet
            /\ UNCHANGED <<cmMu, argKey, argCtx, loc, visited>>
  /\ UNCHANGED <<ctxCache, config, stopChan, cmClosed, cvars, pvars,
                 rvars, evars, gvars>>

\* Variant: CloseContext leaves the registry entry behind.
DeleteEntryForgotten(key) == UNCHANGED ctxCache

\* delete(cm.ctxCache, ctxType)
DeleteEntry(key) == ctxCache' = [ctxCache EXCEPT ![key] = NoCtx]

\* ctx.Close(); on an error return it wrapped, else delete the entry.
\* Inside ContextManager.Close the loop then goes on to the next key.
CloseContextClose(t) ==
  /\ pc[t] \in {"cc_close", "sh_close"}
  /\ LET r == Close(argCtx[t], CtxState) IN
       /\ ApplyClose(r)
       /\ IF r.err # Nil
            THEN /\ cmMu' = Free
                 /\ Return(t, Result(IF pc[t] = "cc_close"
                                     THEN "CloseContext" ELSE "Shutdown",
                                     argKey[t], argCtx[t], FALSE, r.err))
                 /\ UNCHANGED ctxCache
            ELSE /\ DeleteEntry(argKey[t])
                 /\ cmMu' = Free
                 /\ IF pc[t] = "cc_close"
                      THEN Return(t, Result("CloseContext", argKey[t],
                                            argCtx[t], ~closed[argCtx[t]],
                                            Nil))
                      ELSE /\ pc' = [pc EXCEPT ![t] = "sh_range"]
                           /\ visited' = [visited EXCEPT ![t] =
                                @ \cup {argKey[t]}]
                           /\ argKey' = [argKey EXCEPT ![t] = ""]
                           /\ argCtx' = [argCtx EXCEPT ![t] = NoCtx]
                           /\ ret' = NoRet
                           /\ UNCHANGED loc
  /\ UNCHANGED <<config, stopChan, cmClosed, nextCtx, contextType, parent,
                 lastUsed, mu, poolFaulty, rvars, evars, gvars>>

\* ------------------------------------------ ContextManager.Close (Shutdown)
\* close(cm.stopChan) panics on a closed and on a nil channel.
StopCleanupPanics == stopChan # "open"

\* close(cm.stopChan) on an open channel.
StopCleanup == stopChan' = "closed"

\* Variant: ContextManager.Close without the test of cm.closed.
ManagerClosedSkipped == FALSE

\* if cm.closed  (part_000:212)
ManagerClosed == cmClosed

\* cm.mu.RLock(); if cm.closed { return ErrContextManagerClosed };
\* if cm.config.CleanupInterval > 0 { cm.StopCleanup() }; cm.mu.RUnlock().
ShutdownBegin(t) ==
  /\ pc[t] = "idle"
  /\ cmMu = Free
  /\ IF ManagerClosed
       THEN /\ Return(t, Result("Shutdown", "", NoCtx, FALSE,
                                "ErrContextManagerClosed"))
            /\ UNCHANGED <<stopChan, panicked, rpc>>
       ELSE IF config.CleanupInterval > 0 /\ StopCleanupPanics
         THEN /\ Panic(IF stopChan = Nil THEN "close of nil channel"
                       ELSE "close of closed channel")
              /\ ret' = NoRet
              /\ UNCHANGED <<stopChan, argKey, argCtx, loc, visited>>
         ELSE /\ IF config.CleanupInterval > 0
                   THEN StopCleanup
                   ELSE UNCHANGED stopChan
              /\ pc' = [pc EXCEPT ![t] = "sh_range"]
              /\ ret' = NoRet
              /\ UNCHANGED <<panicked, rpc, argKey, argCtx, loc, visited>>
  /\ UNCHANGED <<ctxCache, config, cmClosed, cmMu, cvars, pvars, rKey, rCtx,
                 rVisited, rSel, now, gvars>>

\* "for ctxType := range cm.ctxCache", read with no lock held: the next
\* key, or the end of the loop.
ShutdownRange(t) ==
  /\ pc[t] = "sh_range"
  /\ IF RangeKeys(visited[t]) = {}
       THEN /\ pc' = [pc EXCEPT ![t] = "sh_finish"]
            /\ UNCHANGED argKey
       ELSE \E k \in RangeKeys(visited[t]) :
              /\ argKey' = [argKey EXCEPT ![t] = k]
              /\ pc' = [pc EXCEPT ![t] = "sh_lookup"]
  /\ ret' = NoRet
  /\ UNCHANGED <<mvars, cvars, pvars, argCtx, loc, visited, rvars, evars, gvars>>

\* cm.mu.Lock(); stopChan, ctxCache, config = nil; cm.closed = true.
ShutdownFinish(t) ==
  /\ pc[t] = "sh_finish"
  /\ cmMu = Free
  /\ stopChan' = Nil
  /\ ctxCache' = NilMap
  /\ config' = NilConfig
  /\ cmClosed' = TRUE
  /\ Return(t, Result("Shutdown", "", NoCtx, TRUE, Nil))
  /\ UNCHANGED <<cmMu, cvars, pvars, rvars, evars, gvars>>

\* ------------------------------------------------------------ idle reaper
\* What "case <-cm.stopChan" waits on: select evaluates cm.stopChan once,
\* when it is entered.
SelectOperand == IF stopChan = Nil THEN Nil ELSE "chan"

\* select: case <-cm.stopChan: return.  A receive from a closed channel is
\* ready; a receive from an open or a nil channel is not.  The channel
\* NewContextManager made has been closed once cm.stopChan is "closed" or,
\* after it, nil.
ReaperStop ==
  /\ ret' = NoRet
  /\ rpc = "wait"
  /\ rSel = "chan"
  /\ stopChan # "open"
  /\ rpc' = "done"
  /\ UNCHANGED <<mvars, cvars, pvars, tvars, rKey, rCtx, rVisited, rSel,
                 evars, gvars>>

\* select: case <-ticker.C: cm.cleanupIdleContexts(), which starts with
\* cm.mu.Lock().  When both cases are ready select takes either.
ReaperTick ==
  /\ ret' = NoRet
  /\ rpc = "wait"
  /\ cmMu = Free
  /\ cmMu' = Reaper
  /\ rpc' = "scan"
  /\ UNCHANGED <<ctxCache, config, stopChan, cmClosed, cvars, pvars, tvars,
                 rKey, rCtx, rVisited, rSel, evars, gvars>>

\* !ctx.active && time.Since(ctx.lastUsed) > cm.config.MaxIdleTime
IdleTooLong(c) == ~active[c] /\ now - lastUsed[c] > config.MaxIdleTime

\* One iteration of "for ctxType, ctx := range cm.ctxCache", or the end of
\* the loop, the deferred cm.mu.Unlock() and the way back into select.
cleanupIdleContexts ==
  /\ ret' = NoRet
  /\ rpc = "scan"
  /\ IF RangeKeys(rVisited) = {}
       THEN /\ cmMu' = Free
            /\ rpc' = "wait"
            /\ rVisited' = {}
            /\ rSel' = SelectOperand
            /\ UNCHANGED <<rKey, rCtx>>
       ELSE \E k \in RangeKeys(rVisited) :
              IF IdleTooLong(Lookup(k))
                THEN /\ rKey' = k
                     /\ rCtx' = Lookup(k)
                     /\ rpc' = "r_rlock"
                     /\ UNCHANGED <<cmMu, rVisited, rSel>>
                ELSE /\ rVisited' = rVisited \cup {k}
                     /\ UNCHANGED <<cmMu, rpc, rKey, rCtx, rSel>>
  /\ UNCHANGED <<ctxCache, config, stopChan, cmClosed, cvars, pvars, tvars,
                 evars, gvars>>

\* CloseContext(ctxType, true) in the reaper: the in-use test.  The error
\* is printed and the scan goes on.
ReaperRLock ==
  /\ rpc = "r_rlock"
  /\ mu[rCtx] = Free
  /\ IF ContextInUse(rCtx)
       THEN /\ ret' = [Result("CloseContext", rKey, rCtx, FALSE,
                              "ErrContextInUse") EXCEPT !.t = Reaper]
            /\ rpc' = "scan"
            /\ rVisited' = rVisited \cup {rKey}
            /\ rKey' = ""
            /\ rCtx' = NoCtx
       ELSE /\ ret' = NoRet
            /\ rpc' = "r_close"
            /\ UNCHANGED <<rKey, rCtx, rVisited>>
  /\ UNCHANGED <<mvars, cvars, pvars, tvars, rSel, evars, gvars>>

\* CloseContext(ctxType, true) in the reaper: ctx.Close() and the delete.
ReaperClose ==
  /\ rpc = "r_close"
  /\ LET r == Close(rCtx, CtxState) IN
       /\ ApplyClose(r)
       /\ IF r.err # Nil THEN UNCHANGED ctxCache ELSE DeleteEntry(rKey)
       /\ ret' = [Result("CloseContext", rKey, rCtx,
                           r.err = Nil /\ ~closed[rCtx], r.err)
                    EXCEPT !.t = Reaper]
  /\ rpc' = "scan"
  /\ rVisited' = rVisited \cup {rKey}
  /\ rKey' = ""
  /\ rCtx' = NoCtx
  /\ UNCHANGED <<config, stopChan, cmClosed, cmMu, nextCtx, contextType,
                 parent, lastUsed, mu, poolFaulty, tvars, rSel, evars,
                 gvars>>

\* ------------------------------------------------------------ the system
\* Inputs tried: GetOrCreateContext is given ContextType "A" and a nil
\* Parent; RegisterChild is given a context just built with ContextType "B"
\* and a nil Parent (the code reads neither field again).
TopTypes   == {"A"}
ChildTypes == {"B"}

\* Handing out and taking back top-level contexts.
ShareStep(t) ==
  \/ GetOrCreateInvalid(t)
  \/ \E key \in Keys, cfgType \in TopTypes :
       GetOrCreateLookup(t, key, NoCtx, cfgType)
  \/ GetOrCreateCreate(t)
  \/ GetOrCreateClosed(t)
  \/ GetOrCreateCeiling(t)
  \/ GetOrCreateStore(t)
  \/ ReturnNil(t)
  \/ \E c \in Ctx : ReturnLock(t, c)
  \/ ReturnStore(t)
  \/ ReturnActive(t)

\* The other calls on the manager, and Close on a context handed out.
ManagerStep(t) ==
  \/ \E key \in Keys : CloseContextLookup(t, key)
  \/ CloseContextRLock(t)
  \/ CloseContextClose(t)
  \/ ValidateContext(t, NoCtx)
  \/ \E c \in Ctx : ValidateContext(t, c)
  \/ ShutdownBegin(t)
  \/ ShutdownRange(t)
  \/ ShutdownFinish(t)
  \/ \E c \in Ctx : MemoryContextClose(t, c)

\* The calls on a context.
ContextStep(t) ==
  \/ \E c \in Ctx : MemoryContextClose(t, c)
  \/ \E c \in Ctx : CreateChild(t, c)
  \/ \E p \in Ctx, cfgType \in ChildTypes :
       RegisterChild(t, p, NoCtx, cfgType)
  \/ \E c \in Ctx, ot \in PoolTypes, e \in BOOLEAN, f \in BOOLEAN :
       CreatePool(t, c, ot, e, f)
  \/ \E c \in Ctx, ot \in PoolTypes : Acquire(t, c, ot)
  \/ \E c \in Ctx, ot \in PoolTypes, objType \in ObjTypes :
       Release(t, c, ot, objType)
  \/ \E c \in Ctx, ot \in PoolTypes : GetPool(t, c, ot)

ReaperStep ==
  \/ ReaperStop
  \/ ReaperTick
  \/ cleanupIdleContexts
  \/ ReaperRLock
  \/ ReaperClose

\* The manager with its callers and its reaper.
Next ==
  \/ \E t \in Threads : ShareStep(t)
  \/ \E t \in Threads : ManagerStep(t)
  \/ ReaperStep
  \/ Tick

Spec == Init /\ [][Next]_vars

\* A call in progress goes on: goroutine t takes a step of the call it is in.
Proceed(t) == pc[t] # "idle" /\ (ShareStep(t) \/ ManagerStep(t))

\* Scheduling: a goroutine that can run does run, and a lock that keeps
\* becoming free is obtained (sync.Mutex hands over to starved waiters);
\* the ticker keeps firing; select takes a case that is ready again and
\* again.  Callers are free never to call.
Fairness ==
  /\ \A t \in Threads : SF_vars(Proceed(t))
  /\ SF_vars(ReaperStep)
  /\ SF_vars(ReaperStop)

SpecLive == Init /\ [][Next]_vars /\ Fairness

\* One caller at a time: a context tree with its pools, under a manager
\* whose reaper is switched off (CleanupInterval = 0).
OneCaller == {1}

InitCtx == NewContextManager({<<0, 0>>, <<MaxRefs, 0>>}, FALSE)

NextCtx ==
  \/ \E t \in OneCaller : ShareStep(t)
  \/ \E t \in OneCaller : ContextStep(t)
  \/ \E t \in OneCaller, key \in Keys : CloseContextLookup(t, key)
  \/ \E t \in OneCaller : CloseContextRLock(t)
  \/ \E t \in OneCaller : CloseContextClose(t)
  \/ \E t \in OneCaller, c \in Ctx : ValidateContext(t, c)

SpecCtx == InitCtx /\ [][NextCtx]_vars

\* One caller handing one key's context out and back, with the ghost
\* balance kept.
InitSeq == NewContextManager({<<0, 0>>, <<MaxRefs, 0>>}, TRUE)

NextSeq == \E t \in OneCaller : ShareStep(t)

SpecSeq == InitSeq /\ [][NextSeq]_vars

\* time.Now() advances between calls: no call lasts long enough to see the
\* clock move.
TickBetweenCalls == (\A t \in Threads : pc[t] = "idle") /\ Tick

\* One caller handing contexts out and back while the reaper scans, the
\* calls being short against the clock.
NextIdle ==
  \/ \E t \in OneCaller : ShareStep(t)
  \/ ReaperTick
  \/ cleanupIdleContexts
  \/ ReaperRLock
  \/ ReaperClose
  \/ TickBetweenCalls

SpecIdle == Init /\ [][NextIdle]_vars

\* Two callers handing one key's context out and back concurrently, with
\* the ghost balance kept.
NextRace == \E t \in Threads : ShareStep(t)

SpecRace == InitSeq /\ [][NextRace]_vars

\* ------------------------------------------------------------- properties
\* C1. GetOrCreateContext calls racing on a key with no registry entry:
\* a call that succeeds returns the context the registry holds for the key
\* when it returns; it reports wasExisting = false exactly when the key had
\* no entry and this call stored the context, and wasExisting = true exactly
\* when the entry was there already; and no two open contexts were ever
\* created for one key.
C1_OneCreatorPerKey ==
  /\ [](\A c, d \in Allocated :
          (c # d /\ createdFor[c] # "" /\ createdFor[c] = createdFor[d])
            => (closed[c] \/ closed[d]))
  /\ [][LET r == ret' IN
        (r.op = "GetOrCreateContext" /\ r.err = Nil) =>
          /\ r.ctx # NoCtx
          /\ ctxCache'[r.key] = r.ctx
          /\ r.val = (Lookup(r.key) = r.ctx)
          /\ ~r.val => Lookup(r.key) = NoCtx]_vars

\* C1 happens: goroutine 2 was handed, as existing, a context created under
\* the same key, which now has two holders.
C1_Witness ==
  /\ ret.op = "GetOrCreateContext" /\ ret.err = Nil /\ ret.val
  /\ ret.t = 2
  /\ createdFor[ret.ctx] = ret.key
  /\ referenceCount[ret.ctx] = 2

\* C2 as stated: after each call of a sequence of successful
\* GetOrCreateContext and ReturnContext calls on one context, its count is
\* max(0, creates + shares - Returns).
C2_CountIsFlooredBalance ==
  \A c \in Allocated :
    ((\A t \in Threads : pc[t] = "idle") /\ createdFor[c] # "") =>
      /\ referenceCount[c] >= 0
      /\ referenceCount[c] = IF net[c] > 0 THEN net[c] ELSE 0

\* C2 amended: after each call the count is >= 0 and is creates + shares
\* minus those Returns that found the count positive; a Return that finds
\* it at zero leaves it at zero and is not made up for by a later share.
C2_CountIsBalanceOfEffectiveReturns ==
  \A c \in Allocated :
    ((\A t \in Threads : pc[t] = "idle") /\ createdFor[c] # "") =>
      /\ referenceCount[c] >= 0
      /\ referenceCount[c] = net[c] + floored[c]

\* C2 happens: a context has been returned at count zero and shared again.
C2_Witness ==
  \E c \in Allocated :
    /\ \A t \in Threads : pc[t] = "idle"
    /\ floored[c] > 0 /\ referenceCount[c] > 0

\* C3. With a positive MaxReferences a registered context's count never
\* exceeds it: GetOrCreateContext that finds the count at the ceiling
\* returns ErrMaxReferencesReached and changes no count, and a sharing
\* GetOrCreateContext succeeds only from a count below the ceiling.
C3_CeilingHolds ==
  /\ [](config.MaxReferences > 0 =>
          \A k \in Keys :
            Lookup(k) # NoCtx =>
              referenceCount[Lookup(k)] <= config.MaxReferences)
  /\ [][/\ \A t \in Threads :
             (/\ pc[t] = "goc_ceiling" /\ pc'[t] # "goc_ceiling"
              /\ config.MaxReferences > 0
              /\ referenceCount[argCtx[t]] >= config.MaxReferences)
               => /\ ret'.op = "GetOrCreateContext" /\ ret'.t = t
                  /\ ret'.err = "ErrMaxReferencesReached"
                  /\ UNCHANGED referenceCount
        /\ (/\ ret'.op = "GetOrCreateContext" /\ ret'.err = Nil /\ ret'.val
            /\ config.MaxReferences > 0)
             => /\ referenceCount[ret'.ctx] < config.MaxReferences
                /\ referenceCount'[ret'.ctx] <= config.MaxReferences]_vars

\* C3 happens: a call was refused on a context that is at its ceiling.
C3_Witness ==
  /\ ret.op = "GetOrCreateContext"
  /\ ret.err = "ErrMaxReferencesReached"
  /\ referenceCount[Lookup(ret.key)] = config.MaxReferences

\* C4 as stated: CloseContext on a key with no entry returns
\* ErrContextNotFound; on a registered context whose count is positive it
\* returns ErrContextInUse and leaves the context and the registry as they
\* were; on
\* one whose count is zero it succeeds, the context is closed and the
\* entry is gone.
C4_CloseSucceedsAtZero ==
  [][LET r == ret' IN
     (r.op = "CloseContext" /\ r.t \in Threads) =>
       IF r.ctx = NoCtx
         THEN r.err = "ErrContextNotFound" /\ Lookup(r.key) = NoCtx
         ELSE /\ Lookup(r.key) = r.ctx
              /\ IF referenceCount[r.ctx] > 0
                   THEN /\ r.err = "ErrContextInUse"
                        /\ UNCHANGED <<ctxCache, cvars, pvars>>
                   ELSE /\ r.err = Nil
                        /\ closed'[r.ctx]
                        /\ ctxCache'[r.key] = NoCtx]_vars

\* C4 amended: as C4, but at count zero the call succeeds only if the
\* context's own Close does: when closing a pool of the context or of a
\* descendant fails, CloseContext returns that error and the context stays
\* open and registered; with no failing pool it succeeds.
C4_CloseAtZeroUnlessPoolFails ==
  [][LET r == ret' IN
     (r.op = "CloseContext" /\ r.t \in Threads) =>
       IF r.ctx = NoCtx
         THEN r.err = "ErrContextNotFound" /\ Lookup(r.key) = NoCtx
         ELSE /\ Lookup(r.key) = r.ctx
              /\ IF referenceCount[r.ctx] > 0
                   THEN /\ r.err = "ErrContextInUse"
                        /\ UNCHANGED <<ctxCache, cvars, pvars>>
                   ELSE \/ /\ r.err = Nil
                           /\ closed'[r.ctx]
                           /\ ctxCache'[r.key] = NoCtx
                        \/ /\ r.err \in {"ErrPoolClose", "ErrChildClose"}
                           /\ \E d \in Allocated :
                                \E ot \in pools[d] : poolFaulty[d][ot]
                           /\ ~closed'[r.ctx]
                           /\ ctxCache'[r.key] = r.ctx]_vars

\* C4 happens: CloseContext at count zero came back with a pool's error.
C4_Witness ==
  /\ ret.op = "CloseContext" /\ ret.t \in Threads
  /\ ret.err = "ErrPoolClose"
  /\ referenceCount[ret.ctx] = 0
  /\ ~closed[ret.ctx]
  /\ Lookup(ret.key) = ret.ctx

\* C5. The reaper closes a context only if, when it closes it, the context
\* is inactive, has been idle for longer than MaxIdleTime and has count
\* zero; no step of the reaper closes or unregisters a context whose count
\* is positive.
C5_ReaperSparesReferenced ==
  [][LET r == ret' IN
     /\ (r.t = Reaper /\ r.op = "CloseContext" /\ r.err = Nil) =>
          /\ ~active[r.ctx]
          /\ now - lastUsed[r.ctx] > config.MaxIdleTime
          /\ referenceCount[r.ctx] = 0
     /\ (rpc' # rpc \/ rVisited' # rVisited) =>
          \A c \in Allocated :
            referenceCount[c] > 0 =>
              /\ closed'[c] = closed[c]
              /\ \A k \in Keys : Lookup(k) = c => ctxCache'[k] = c]_vars

\* C5 happens: the reaper closed a context and removed its entry.
C5_Witness ==
  /\ ret.t = Reaper /\ ret.op = "CloseContext"
  /\ ret.err = Nil /\ ret.val
  /\ closed[ret.ctx]
  /\ Lookup(ret.key) = NoCtx

\* C6. Between calls, a context created by GetOrCreateContext whose count
\* is positive is active and passes ValidateContext.
C6_ReferencedIsActive ==
  \A c \in Allocated :
    ((\A t \in Threads : pc[t] = "idle") /\ createdFor[c] # ""
       /\ ~closed[c] /\ referenceCount[c] > 0)
      => (active[c] /\ ValidateResult(c))

\* C7. A closed context has no pools, no children, count zero and is
\* inactive, whatever is called on it after the close.
C7_ClosedHoldsNothing ==
  \A c \in Allocated :
    closed[c] =>
      /\ pools[c] = {}
      /\ children[c] = <<>>
      /\ referenceCount[c] = 0
      /\ ~active[c]

\* C8. On a closed context CreatePool and CreateChild return
\* ErrContextClosed, Acquire and GetPool return nil and Release returns
\* false, none of them changes any context or pool, a CreateChild past its
\* closed test is on an open context, and a closed context stays closed.
C8_ClosedContextRefuses ==
  /\ [](/\ \A c \in Allocated :
             closed[c] =>
               \A ot \in PoolTypes :
                 /\ ~AcquireResult(c, ot)
                 /\ ~GetPoolResult(c, ot)
                 /\ \A objType \in ObjTypes : ~ReleaseResult(c, ot, objType)
        /\ \A t \in Threads :
             pc[t] = "cch_register" => ~closed[argCtx[t]])
  /\ [][/\ LET r == ret' IN
           (/\ r.op \in {"CreatePool", "CreateChild", "Acquire", "Release",
                         "GetPool"}
            /\ closed[r.ctx])
             => /\ r.op \in {"CreatePool", "CreateChild"}
                     => r.err = "ErrContextClosed"
                /\ r.op \in {"Acquire", "Release", "GetPool"} => ~r.val
                /\ UNCHANGED <<cvars, pvars>>
        /\ \A c \in Ctx : closed[c] => closed'[c]]_vars

\* C8 happens: CreatePool was called on a closed context and refused.
C8_Witness ==
  /\ ret.op = "CreatePool"
  /\ ret.err = "ErrContextClosed"
  /\ closed[ret.ctx]

\* C9. Close on a context that is closed already returns no error and
\* changes no field of any context, pool or of the manager.
C9_CloseTwiceIsCloseOnce ==
  [][LET r == ret' IN
     (r.op = "Close" /\ closed[r.ctx]) =>
       /\ r.err = Nil
       /\ r.val
       /\ UNCHANGED <<mvars, cvars, pvars>>]_vars

\* C9 happens: Close returned from a context it found closed.
C9_Witness ==
  /\ ret.op = "Close" /\ ret.val /\ ret.err = Nil
  /\ closed[ret.ctx]

\* C10. When Close returns no error, the context, every descendant at
\* every depth of its child tree, and every pool any of them owned when
\* Close was called, is closed.
C10_CloseClosesTree ==
  [][LET r    == ret'
         Kids(S) == S \cup UNION {{children[x][i] : i \in DOMAIN children[x]}
                                    : x \in S}
         Tree(c) == Kids(Kids(Kids({c})))
     IN (r.op = "Close" /\ r.err = Nil) =>
          \A d \in Tree(r.ctx) :
            /\ closed'[d]
            /\ \A ot \in pools[d] : poolState'[d][ot] = "closed"]_vars

\* C11. A CreateChild call on an open context returns: once past its
\* closed test it is never waiting, in RegisterChild, for the context's
\* mutex while holding that mutex itself.
C11_CreateChildReturns ==
  \A t \in Threads :
    pc[t] = "cch_register" => mu[argCtx[t]] # t

\* C12. Once ContextManager.Close has returned nil, the manager stays
\* closed, and every ContextManager.Close called from then on returns
\* ErrContextManagerClosed at once and changes nothing of the manager or of
\* any context.
C12_SecondShutdownRefused ==
  [][/\ cmClosed => cmClosed'
     /\ \A t \in Threads :
          (/\ cmClosed
           /\ pc[t] = "idle"
           /\ \/ pc'[t] \in {"sh_range", "sh_lookup", "sh_finish"}
              \/ ret'.op = "Shutdown" /\ ret'.t = t)
            => /\ ret'.op = "Shutdown" /\ ret'.t = t
               /\ ret'.err = "ErrContextManagerClosed"
               /\ pc'[t] = "idle"
               /\ UNCHANGED <<mvars, cvars, pvars>>]_vars

\* C12 happens: ContextManager.Close was refused by a closed manager.
C12_Witness ==
  /\ ret.op = "Shutdown"
  /\ ret.err = "ErrContextManagerClosed"
  /\ cmClosed

\* C13. Whatever ContextManager.Close calls are made on a manager with a
\* running reaper, one after another or at once, cm.stopChan is closed at
\* most once: no call panics closing a channel that is closed already.
C13_StopSentOnce ==
  panicked \notin {"close of closed channel", "close of nil channel"}

\* C14. Once a ContextManager.Close call that closed cm.stopChan has
\* returned (the channel is closed, or nil after it, and no call is inside
\* ContextManager.Close), the reaper starts no scan of the registry and
\* closes no context.
C14_NoReapAfterShutdown ==
  [][(/\ stopChan # "open"
      /\ panicked = NoPanic
      /\ \A t \in Threads :
           pc[t] \notin {"sh_range", "sh_lookup", "sh_rlock", "sh_close",
                         "sh_finish"})
       => /\ ~(rpc = "wait" /\ rpc' = "scan")
          /\ ~(ret'.t = Reaper /\ ret'.op = "CloseContext" /\ ret'.val)]_vars

\* C15. Whenever cm.stopChan has been closed, the reaper goroutine
\* eventually ends (by returning, or with the process).
C15_ReaperTerminates ==
  (rpc # "off" /\ stopChan # "open") ~> (rpc \in {"done", "dead"})

\* C16. Once the manager has been shut down, a GetOrCreateContext with a
\* non-empty type does not panic, and it returns ErrContextManagerClosed,
\* allocating no context and leaving the registry alone.
C16_GetOrCreateAfterShutdownRefused ==
  [][cmClosed =>
       /\ panicked' # "assignment to entry in nil map"
       /\ (ret'.op = "GetOrCreateContext" /\ ret'.err # "ErrInvalidContextType")
            => /\ ret'.err = "ErrContextManagerClosed"
               /\ UNCHANGED <<ctxCache, nextCtx>>]_vars

\* C17. A sharing GetOrCreateContext and a ReturnContext on one context:
\* no goroutine is between the load and the store of the count's increment
\* while another is between the load and the store of its decrement, and
\* once both calls have returned no update is lost: the count is at least
\* the number of handles outstanding (creates + shares - Returns), as it is
\* after the calls in either serial order.
C17_CountUpdatesSerialized ==
  /\ \A t, u \in Threads :
       ~(/\ pc[t] = "goc_store"
         /\ pc[u] = "ret_store"
         /\ argCtx[t] = argCtx[u])
  /\ \A c \in Allocated :
       ((\A t \in Threads : pc[t] = "idle") /\ createdFor[c] # "") =>
         referenceCount[c] >= net[c]

\* C18. Every context the registry holds under a key is open: a closed
\* top-level context is never left registered.
C18_RegisteredIsLive ==
  \A k \in Keys : Lookup(k) # NoCtx => ~closed[Lookup(k)]

\* C19. A GetOrCreateContext and a ReturnContext that succeed leave the
\* context's lastUsed at the current time, and the reaper does not find
\* idle too long a context whose ReturnContext has just succeeded, no time
\* having passed since (MaxIdleTime is positive).
C19_LastUsedRefreshed ==
  [][/\ (/\ ret'.op \in {"GetOrCreateContext", "ReturnContext"}
         /\ ret'.err = Nil)
          => lastUsed'[ret'.ctx] = now'
     /\ (/\ ret.op = "ReturnContext"
         /\ ret.err = Nil
         /\ config.MaxIdleTime > 0)
          => ~(rpc = "scan" /\ rpc' = "r_rlock" /\ rCtx' = ret.ctx)]_vars

\* C20. Under fair scheduling every call on the manager that has been
\* invoked returns, and every scan the reaper has begun comes to its end:
\* no goroutine stays for ever inside a call or a scan.
C20_EveryCallReturns ==
  /\ \A t \in Threads : (pc[t] # "idle") ~> (pc[t] = "idle")
  /\ (rpc \in {"scan", "r_rlock", "r_close"}) ~> (rpc \in {"wait", "done"})

=============================================================================
